---- MODULE Spec2Model ----
(***************************************************************************)
(* Parameter staging and reconciliation of IronWing: the useParams hook    *)
(* (src/src/hooks/use-params.ts) and the callers of its operations in      *)
(* src/src/components/ConfigPanel.tsx.                                     *)
(*                                                                         *)
(* The hook runs on the single JavaScript event loop: every handler below  *)
(* runs to completion, and an `await` splits a handler into the step that  *)
(* issues the external call and the step that runs when it settles.        *)
(***************************************************************************)
EXTENDS Integers, Sequences, FiniteSets, Bags, TLC

\* ------------------------------------------------------------------ bounds
\* Parameter values are drawn from 1..MaxValue.
MaxValue == 2
\* At most MaxPending external calls (batch writes, single writes, file
\* loads) are outstanding at a time.
MaxPending == 2

Names == {"A", "B"}
Values == 1..MaxValue

VARIABLES
    connected,   \* the `connected` argument of useParams
    linkUsed,    \* a link has been up since the hook was mounted
    store,       \* useState<ParamStore | null>
    staged,      \* useState<Map<string, number>>
    filterMode,  \* useState<FilterMode>
    flights,     \* writeBatchParams calls that have not settled yet
    writes,      \* writeParam calls that have not settled yet
    loads,       \* loadFromFile calls waiting for the dialog / file / parser
    toast,       \* the toast of the applyStaged, write or loadFromFile
                 \* continuation that ran in the last step, if one did
    editingParam, \* useState<string | null>: the row being edited
    progress,    \* useState<ParamProgress | null>: the phase of the latest
                 \* progress event
    hist         \* history: the latest staging operations, for the
                 \* specifications that record them

vars == <<connected, linkUsed, store, staged, filterMode, flights, writes, loads, toast,
          editingParam, progress, hist>>

\* ------------------------------------------------------------- data model
\* A Map<string, number> / Record<string, Param>: a function on a subset of
\* Names.
EmptyMap == [n \in {} |-> 0]
Maps == UNION {[D -> Values] : D \in SUBSET Names}
Has(m, n) == n \in DOMAIN m
MapSet(m, n, v) == [k \in DOMAIN m \cup {n} |-> IF k = n THEN v ELSE m[k]]
MapDelete(m, n) == [k \in DOMAIN m \ {n} |-> m[k]]

\* Numbers with a fraction are fixed-point, in units of 0.0000001: 0.1,
\* 0.1000001 and 5.0. The store holds such numbers; what a caller, the edit
\* field or a parsed file hands in may also be the number that is not finite.
NotANumber == 0 - 1
\* Fault: every number passes for finite.
IsFiniteAlways(v) == TRUE

IsFinite(v) == v # NotANumber
EntryValues == {1000000, 1000001, 50000000}
EntryInputs == EntryValues \cup {NotANumber}
EntryMaps == UNION {[D -> EntryValues] : D \in SUBSET Names}
EntryInputMaps == UNION {[D -> EntryInputs] : D \in SUBSET Names}

\* Math.round of a number that is not negative, as the whole number itself.
Round(v) == (v + 5000000) \div 10000000

\* Param.param_type: the device declares one type per parameter name.
IntegerTypes == {"uint8", "int8", "uint16", "int16", "uint32", "int32"}
ParamType == [n \in Names |-> IF n = "A" THEN "int32" ELSE "real32"]

\* ParamStore | null: present = FALSE is null.
NullStore == [present |-> FALSE, params |-> EmptyMap]
SomeStore(p) == [present |-> TRUE, params |-> p]

\* editingParam === null.
NoEdit == "-"

\* progress === null, and the phases of a progress event: the two the
\* toolbar looks for, and any other.
NoProgress == "none"
Phases == {"downloading", "writing", "other"}

\* The toast of a continuation: its kind and the numbers in its text.
NoToast == [kind |-> "none", n1 |-> 0, n2 |-> 0]
Toast(k, a, b) == [kind |-> k, n1 |-> a, n2 |-> b]

\* Outstanding calls are bags: what settles is one of the calls, and the
\* order in which they were issued decides nothing.
Pending == BagCardinality(flights) + BagCardinality(writes) + BagCardinality(loads)
Issue(bag, call) == bag (+) SetToBag({call})
Settle(bag, call) == bag (-) SetToBag({call})
MarkStale(f) == [f EXCEPT !.stale = TRUE]
EntriesOf(f) == f.entries

\* ------------------------------------------------------------ pure steps
\* store?.params[name] !== undefined
InStore(st, n) == st.present /\ Has(st.params, n)

\* store?.params[name]?.value, then `current !== undefined && current === value`
MatchesCurrent(st, name, value) ==
    st.present /\ Has(st.params, name) /\ st.params[name] = value

\* Fault: stage starts the staged map over with the one entry.
StageReplacesMap(st, prev, name, value) ==
    IF MatchesCurrent(st, name, value) THEN EmptyMap
    ELSE MapSet(EmptyMap, name, value)

\* Fault: stage sets the entry without looking at the store.
StageAlwaysSets(st, prev, name, value) == MapSet(prev, name, value)

\* Fault: stage keeps the value a name is already staged with.
StageKeepsFirst(st, prev, name, value) ==
    IF MatchesCurrent(st, name, value) THEN MapDelete(prev, name)
    ELSE IF Has(prev, name) THEN prev
    ELSE MapSet(prev, name, value)

\* stage: the two setStaged updaters.
StageUpdate(st, prev, name, value) ==
    IF MatchesCurrent(st, name, value)
    THEN MapDelete(prev, name)
    ELSE MapSet(prev, name, value)

\* handleStageFromSetup: `for (const [name, value] of entries)
\* params.stage(name, value)`, the entries naming each parameter once.
StageAll(st, prev, entries) ==
    LET same == {n \in DOMAIN entries : MatchesCurrent(st, n, entries[n])}
        set == DOMAIN entries \ same
    IN  [k \in (DOMAIN prev \ same) \cup set |->
            IF k \in set THEN entries[k] ELSE prev[k]]

\* Fault: unstage drops every entry.
UnstageDropsAll(prev, name) == EmptyMap

\* unstage: the setStaged updater.
UnstageUpdate(prev, name) == MapDelete(prev, name)

\* unstageAll: setStaged(new Map()).
UnstageAllUpdate(prev) == EmptyMap

\* Fault: the disconnect effect forgets setStaged(new Map()).
DisconnectStagedKept(prev) == prev

\* disconnect effect: setStore(null), setProgress(null),
\* setEditingParam(null), setStaged(new Map()), setFilterMode("all").
DisconnectStore(prev) == NullStore
DisconnectStaged(prev) == EmptyMap
DisconnectFilterMode(prev) == "all"
DisconnectEditing(prev) == NoEdit
DisconnectProgress(prev) == NoProgress

\* Fault: a store event keeps the parameters it does not deliver.
PushUpdateMerged(prev, pushed) ==
    SomeStore([k \in DOMAIN prev.params \cup DOMAIN pushed.params |->
                  IF Has(pushed.params, k) THEN pushed.params[k] ELSE prev.params[k]])

\* useState<FilterMode>("standard").
InitialFilterMode == "standard"

\* The filter mode after the first render and its effects: the disconnect
\* effect runs after the first render too, and acts if the link is down.
MountFilterMode(conn) ==
    IF conn THEN InitialFilterMode ELSE DisconnectFilterMode(InitialFilterMode)

\* subscribeParamStore(setStore): the pushed store replaces the state.
PushUpdate(prev, pushed) == pushed

\* Fault: a store event also resets the staged map.
PushStagedReset(prev, pushed) == EmptyMap

\* what the store push does to the staged map: nothing (setStore only).
PushStaged(prev, pushed) == prev

\* Fault: the confirmed write leaves only the written entry in the store.
PatchStoreAlone(prev, name, confirmed) ==
    IF ~prev.present THEN prev
    ELSE SomeStore(MapSet(EmptyMap, name, confirmed))

\* write: setStore((prev) => prev ? {...prev, params: {...prev.params, [name]: confirmed}} : prev)
PatchStore(prev, name, confirmed) ==
    IF ~prev.present THEN prev
    ELSE SomeStore(MapSet(prev.params, name, confirmed))

\* what the confirmed single write does to the staged map: nothing.
PatchStaged(prev, name, confirmed) == prev

\* Fault: a download that fails drops the staged map.
DownloadStagedDropped(prev, ok) == IF ok THEN prev ELSE EmptyMap

\* download: what it does to the store and to the staged map, whether
\* downloadAllParams resolves (ok) or rejects. Nothing: the function calls
\* no setter, a downloaded store arrives as a store event.
DownloadStore(prev, ok) == prev
DownloadStaged(prev, ok) == prev

\* download: the toast. toast.error("Connect to vehicle first") without a
\* link, else toast.success or toast.error as downloadAllParams settles.
DownloadReport(conn, ok) ==
    IF ~conn THEN "connect-first"
    ELSE IF ok THEN "downloaded" ELSE "download-failed"

\* Fault: applyStaged goes on without a link.
CanApplyIgnoresLink(conn, stg) == stg # EmptyMap

\* Fault: applyStaged goes on with nothing staged.
CanApplyIgnoresEmpty(conn, stg) == conn

\* applyStaged: `if (!connected || staged.size === 0) return;` does not return.
CanApply(conn, stg) == conn /\ stg # EmptyMap

\* Fault: the snapshot holds only one of the staged entries.
SnapshotTorn(st) ==
    IF st = EmptyMap THEN st
    ELSE LET n == CHOOSE k \in DOMAIN st : TRUE IN [k \in {n} |-> st[k]]

\* applyStaged: Array.from(staged.entries())
Snapshot(st) == st

\* applyStaged: results.filter((r) => r.success) / (r) => !r.success, as name sets.
Succeeded(results) == {n \in DOMAIN results : results[n]}
Failed(results) == {n \in DOMAIN results : ~results[n]}

\* Fault: the updater deletes nothing.
RemoveNothing(prev, results) == prev

\* Fault: the updater deletes every name of the result list, failed or not.
RemoveAllResults(prev, results) ==
    [k \in DOMAIN prev \ DOMAIN results |-> prev[k]]

\* applyStaged: the setStaged updater, `for (const r of succeeded) next.delete(r.name)`.
RemoveSucceeded(prev, results) ==
    [k \in DOMAIN prev \ Succeeded(results) |-> prev[k]]

\* Fault: the catch branch clears the staged map.
ApplyCatchStagedCleared(prev) == EmptyMap

\* applyStaged: the catch branch leaves the staged map alone.
ApplyCatchStaged(prev) == prev

\* loadFromFile: the names the setStaged updater sets,
\* `current !== undefined && current !== value` against the captured store.
ImportDiffers(captured, parsed) ==
    {n \in DOMAIN parsed :
        Has(captured.params, n) /\ captured.params[n] # parsed[n]}

\* Fault: the import starts the staged map over with the file's entries.
ImportDropsOthers(captured, prev, parsed) ==
    [k \in ImportDiffers(captured, parsed) |-> parsed[k]]

\* Fault: the import keeps the value a name is already staged with.
ImportKeepsStaged(captured, prev, parsed) ==
    IF ~captured.present THEN prev
    ELSE [k \in DOMAIN prev \cup ImportDiffers(captured, parsed) |->
            IF Has(prev, k) THEN prev[k] ELSE parsed[k]]

\* loadFromFile: the setStaged updater.
ImportUpdate(captured, prev, parsed) ==
    [k \in DOMAIN prev \cup ImportDiffers(captured, parsed) |->
        IF k \in ImportDiffers(captured, parsed) THEN parsed[k] ELSE prev[k]]

\* loadFromFile: `if (store) { ... setStaged(...) ... }` with the store the
\* callback holds; without one the staged map is not touched.
ImportStaged(captured, prev, parsed) ==
    IF captured.present THEN ImportUpdate(captured, prev, parsed) ELSE prev

\* loadFromFile: `stagedCount` when the toast line reads it. The counter is
\* incremented inside the setStaged updater; React runs an updater at once
\* when the component has no update pending and defers it to the next render
\* otherwise, and then the counter is still 0.
ImportCounted(captured, parsed) ==
    {0, Cardinality(ImportDiffers(captured, parsed))}

\* Fault: the import writes the file's values into the store.
ImportStoreMerged(prev, captured, parsed) ==
    IF ~prev.present THEN prev
    ELSE SomeStore([k \in DOMAIN prev.params \cup DOMAIN parsed |->
                      IF Has(parsed, k) THEN parsed[k] ELSE prev.params[k]])

\* loadFromFile: what it does to the store: nothing (it never calls setStore).
ImportStore(prev, captured, parsed) == prev

\* The result lists writeBatchParams can resolve with for a request: each
\* requested name at most once, with its success flag.
ResultsFor(entries) == UNION {[D -> BOOLEAN] : D \in SUBSET DOMAIN entries}

\* ---------------------------------------------------------------- actions
\* The hook after its first render and the effects of that render, `conn`
\* being the `connected` argument it is mounted with: the useState initial
\* values, over which the disconnect effect has run if the link is down.
Mount(conn) ==
    /\ connected = conn
    /\ linkUsed = conn
    /\ store = NullStore
    /\ staged = EmptyMap
    /\ filterMode = MountFilterMode(conn)
    /\ flights = EmptyBag
    /\ writes = EmptyBag
    /\ loads = EmptyBag
    /\ toast = NoToast
    /\ editingParam = NoEdit
    /\ progress = NoProgress

Init ==
    /\ \E conn \in BOOLEAN : Mount(conn)
    /\ hist = <<>>

\* The link comes up: `connected` becomes true; no effect of the hook acts.
Connect ==
    /\ ~connected
    /\ connected' = TRUE
    /\ linkUsed' = TRUE
    /\ toast' = NoToast
    /\ UNCHANGED <<progress, editingParam, store, staged, filterMode, flights, writes, loads>>

\* The link goes down: `connected` becomes false and the effect clears.
\* Calls in flight stay in flight; each is marked as belonging to a session
\* that has ended.
Disconnect ==
    /\ connected
    /\ connected' = FALSE
    /\ store' = DisconnectStore(store)
    /\ staged' = DisconnectStaged(staged)
    /\ filterMode' = DisconnectFilterMode(filterMode)
    /\ flights' = BagOfAll(MarkStale, flights)
    /\ toast' = NoToast
    /\ editingParam' = DisconnectEditing(editingParam)
    /\ progress' = DisconnectProgress(progress)
    /\ UNCHANGED <<linkUsed, writes, loads>>

\* The backend emits a param store event; it has a store to emit once a
\* link has been up, and an event emitted before a disconnect can be
\* delivered after it.
StorePush(pushed) ==
    /\ linkUsed
    /\ store' = PushUpdate(store, SomeStore(pushed))
    /\ staged' = PushStaged(staged, SomeStore(pushed))
    /\ toast' = NoToast
    /\ UNCHANGED <<progress, editingParam, connected, linkUsed, filterMode, flights, writes, loads>>

Stage(name, value) ==
    /\ staged' = StageUpdate(store, staged, name, value)
    /\ toast' = NoToast
    /\ UNCHANGED <<progress, editingParam, connected, linkUsed, store, filterMode, flights, writes, loads>>

Unstage(name) ==
    /\ staged' = UnstageUpdate(staged, name)
    /\ toast' = NoToast
    /\ UNCHANGED <<progress, editingParam, connected, linkUsed, store, filterMode, flights, writes, loads>>

UnstageAll ==
    /\ staged' = UnstageAllUpdate(staged)
    /\ toast' = NoToast
    /\ UNCHANGED <<progress, editingParam, connected, linkUsed, store, filterMode, flights, writes, loads>>

SetFilterMode(mode) ==
    /\ filterMode' = mode
    /\ toast' = NoToast
    /\ UNCHANGED <<progress, editingParam, connected, linkUsed, store, staged, flights, writes, loads>>

\* applyStaged up to the await: guard, snapshot, writeBatchParams(entries).
ApplyStart ==
    /\ CanApply(connected, staged)
    /\ Pending < MaxPending
    /\ flights' = Issue(flights, [entries |-> Snapshot(staged), stale |-> FALSE])
    /\ toast' = NoToast
    /\ UNCHANGED <<progress, editingParam, connected, linkUsed, store, staged, filterMode, writes, loads>>

\* applyStaged called while disconnected or with nothing staged: returns.
ApplyNoop ==
    /\ ~CanApply(connected, staged)
    /\ toast' = NoToast
    /\ UNCHANGED <<progress, editingParam, connected, linkUsed, store, staged, filterMode, flights, writes, loads>>

\* writeBatchParams resolves with `results`: the rest of the try block.
ApplyDone(f, results) ==
    /\ BagIn(f, flights)
    /\ results \in ResultsFor(f.entries)
    /\ staged' = RemoveSucceeded(staged, results)
    /\ flights' = Settle(flights, f)
    /\ toast' = IF Failed(results) = {}
                THEN Toast("written", Cardinality(Succeeded(results)), 0)
                ELSE Toast("partial", Cardinality(Succeeded(results)),
                           Cardinality(Failed(results)))
    /\ UNCHANGED <<progress, editingParam, connected, linkUsed, store, filterMode, writes, loads>>

\* writeBatchParams rejects: the catch block.
ApplyFail(f) ==
    /\ BagIn(f, flights)
    /\ staged' = ApplyCatchStaged(staged)
    /\ flights' = Settle(flights, f)
    /\ toast' = Toast("batch-failed", 0, 0)
    /\ UNCHANGED <<progress, editingParam, connected, linkUsed, store, filterMode, writes, loads>>

\* write called while disconnected: it reports and returns.
WriteNotConnected ==
    /\ ~connected
    /\ toast' = NoToast
    /\ UNCHANGED <<progress, editingParam, connected, linkUsed, store, staged, filterMode, flights, writes, loads>>

\* write up to the await: writeParam(name, value). The call is remembered
\* by its name; the Param it resolves with is the device's answer.
WriteStart(name, value) ==
    /\ connected
    /\ Pending < MaxPending
    /\ writes' = Issue(writes, name)
    /\ toast' = NoToast
    /\ UNCHANGED <<progress, editingParam, connected, linkUsed, store, staged, filterMode, flights, loads>>

\* writeParam resolves with the confirmed Param: the store entry is patched.
WriteDone(name, confirmed) ==
    /\ BagIn(name, writes)
    /\ store' = PatchStore(store, name, confirmed)
    /\ staged' = PatchStaged(staged, name, confirmed)
    /\ writes' = Settle(writes, name)
    /\ toast' = Toast("write-ok", confirmed, 0)
    /\ UNCHANGED <<progress, editingParam, connected, linkUsed, filterMode, flights, loads>>

\* writeParam rejects: the catch block.
WriteFail(name) ==
    /\ BagIn(name, writes)
    /\ writes' = Settle(writes, name)
    /\ toast' = Toast("write-failed", 0, 0)
    /\ UNCHANGED <<progress, editingParam, connected, linkUsed, store, staged, filterMode, flights, loads>>

\* download (refused while disconnected, resolved, or rejected): the hook
\* only reports; the downloaded store arrives as a store event (StorePush).
Download(ok) ==
    /\ store' = DownloadStore(store, ok)
    /\ staged' = DownloadStaged(staged, ok)
    /\ toast' = NoToast
    /\ UNCHANGED <<progress, editingParam, connected, linkUsed, filterMode, flights, writes, loads>>

\* loadFromFile up to its first await: the callback holds the `store` of
\* the render it was created in.
LoadStart ==
    /\ Pending < MaxPending
    /\ loads' = Issue(loads, store)
    /\ toast' = NoToast
    /\ UNCHANGED <<progress, editingParam, connected, linkUsed, store, staged, filterMode, flights, writes>>

\* The dialog, the file read and the parser have resolved with `parsed`.
LoadDone(captured, parsed) ==
    /\ BagIn(captured, loads)
    /\ staged' = ImportStaged(captured, staged, parsed)
    /\ store' = ImportStore(store, captured, parsed)
    /\ \E stagedCount \in ImportCounted(captured, parsed) :
          /\ filterMode' = IF captured.present /\ stagedCount > 0
                           THEN "modified" ELSE filterMode
          /\ toast' = IF captured.present
                      THEN Toast("loaded", Cardinality(DOMAIN parsed), stagedCount)
                      ELSE Toast("loaded-no-store", Cardinality(DOMAIN parsed), 0)
    /\ loads' = Settle(loads, captured)
    /\ UNCHANGED <<progress, editingParam, connected, linkUsed, flights, writes>>

\* The dialog was dismissed (no toast) or reading / parsing threw (toast).
LoadAbort(captured, threw) ==
    /\ BagIn(captured, loads)
    /\ loads' = Settle(loads, captured)
    /\ toast' = IF threw THEN Toast("load-failed", 0, 0) ELSE NoToast
    /\ UNCHANGED <<progress, editingParam, connected, linkUsed, store, staged, filterMode, flights, writes>>

Next ==
    \/ Connect /\ UNCHANGED hist
    \/ Disconnect /\ UNCHANGED hist
    \/ (\E p \in Maps : StorePush(p)) /\ UNCHANGED hist
    \/ (\E n \in Names, v \in Values : Stage(n, v)) /\ UNCHANGED hist
    \/ (\E n \in Names : Unstage(n)) /\ UNCHANGED hist
    \/ UnstageAll /\ UNCHANGED hist
    \/ (\E m \in {"all", "modified", "standard"} : SetFilterMode(m)) /\ UNCHANGED hist
    \/ ApplyStart /\ UNCHANGED hist
    \/ ApplyNoop /\ UNCHANGED hist
    \/ (\E f \in BagToSet(flights) : \E r \in ResultsFor(f.entries) : ApplyDone(f, r)) /\ UNCHANGED hist
    \/ (\E f \in BagToSet(flights) : ApplyFail(f)) /\ UNCHANGED hist
    \/ WriteNotConnected /\ UNCHANGED hist
    \/ (\E n \in Names, v \in Values : WriteStart(n, v)) /\ UNCHANGED hist
    \/ (\E n \in BagToSet(writes) : \E c \in Values : WriteDone(n, c)) /\ UNCHANGED hist
    \/ (\E n \in BagToSet(writes) : WriteFail(n)) /\ UNCHANGED hist
    \/ (\E ok \in BOOLEAN : Download(ok)) /\ UNCHANGED hist
    \/ LoadStart /\ UNCHANGED hist
    \/ (\E c \in BagToSet(loads) : \E parsed \in Maps : LoadDone(c, parsed)) /\ UNCHANGED hist
    \/ (\E c \in BagToSet(loads) : \E threw \in BOOLEAN : LoadAbort(c, threw)) /\ UNCHANGED hist

Spec == Init /\ [][Next]_vars

\* ------------------------------------------------------------- the filter
\* Text is a sequence of characters; a parameter name here is one letter.
NameText(n) == <<n>>
LowerOf(ch) == CASE ch = "A" -> "a" [] ch = "B" -> "b" [] OTHER -> ch
ToLowerCase(text) == [i \in DOMAIN text |-> LowerOf(text[i])]
Includes(text, term) ==
    \E i \in 0..(Len(text) - Len(term)) : SubSeq(text, i + 1, i + Len(term)) = term

\* a.name.localeCompare(b.name) < 0
NameRank == [n \in Names |-> IF n = "A" THEN 1 ELSE 2]
NameBefore(a, b) == NameRank[a] < NameRank[b]

\* ParamMetadataMap | null: per name the access level and the texts.
NoMetadata == [present |-> FALSE, of |-> EmptyMap]
MetaOf(level, human, description) ==
    [userLevel |-> level, humanName |-> human, description |-> description]
MetaSamples ==
    { NoMetadata,
      [present |-> TRUE, of |-> EmptyMap],
      [present |-> TRUE, of |-> [n \in {"A"} |-> MetaOf("Advanced", <<"b">>, <<>>)]],
      [present |-> TRUE, of |-> [n \in Names |->
          IF n = "A" THEN MetaOf("Standard", <<>>, <<"a", "b">>)
                     ELSE MetaOf("", <<"B">>, <<>>)]] }

\* Fault: the list keeps the reverse of the name order.
ParamListReversed(st) ==
    IF ~st.present THEN <<>>
    ELSE CHOOSE q \in [1..Cardinality(DOMAIN st.params) -> DOMAIN st.params] :
            \A i, j \in DOMAIN q : i < j => NameBefore(q[j], q[i])

\* paramList: Object.values(store.params).sort(by name), [] without a store.
ParamList(st) ==
    IF ~st.present THEN <<>>
    ELSE CHOOSE q \in [1..Cardinality(DOMAIN st.params) -> DOMAIN st.params] :
            \A i, j \in DOMAIN q : i < j => NameBefore(q[i], q[j])

\* Fault: a parameter without a known level is hidden.
IsStandardStrict(meta, n) ==
    meta.present /\ Has(meta.of, n) /\ meta.of[n].userLevel = "Standard"

\* `!meta?.userLevel || meta.userLevel === "Standard"`
IsStandard(meta, n) ==
    \/ ~meta.present
    \/ ~Has(meta.of, n)
    \/ meta.of[n].userLevel \in {"", "Standard"}

\* Fault: the mode filter lets every parameter through.
ModeFilterKeepsAll(list, stg, meta, mode) == list

\* filteredParams: the filter by mode.
ModeFilter(list, stg, meta, mode) ==
    CASE mode = "modified" -> SelectSeq(list, LAMBDA n : Has(stg, n))
      [] mode = "standard" -> SelectSeq(list, LAMBDA n : IsStandard(meta, n))
      [] OTHER -> list

\* filteredParams: the test of one parameter against the search term.
MatchesSearch(meta, n, term) ==
    \/ Includes(ToLowerCase(NameText(n)), term)
    \/ /\ meta.present /\ Has(meta.of, n)
       /\ \/ Includes(ToLowerCase(meta.of[n].description), term)
          \/ Includes(ToLowerCase(meta.of[n].humanName), term)

\* Fault: the search looks at the parameter names only.
SearchFilterNamesOnly(list, meta, search) ==
    IF search = <<>> THEN list
    ELSE SelectSeq(list, LAMBDA n : Includes(ToLowerCase(NameText(n)), ToLowerCase(search)))

\* filteredParams: the filter by search, skipped for the empty string.
SearchFilter(list, meta, search) ==
    IF search = <<>> THEN list
    ELSE SelectSeq(list, LAMBDA n : MatchesSearch(meta, n, ToLowerCase(search)))

\* filteredParams, as the names of the parameters it returns.
FilteredParams(st, stg, meta, mode, search) ==
    SearchFilter(ModeFilter(ParamList(st), stg, meta, mode), meta, search)

\* ------------------------------------------------- the staging operations
\* The editing of the staged map seen on its own: store events, stage,
\* unstage, unstageAll, the filter mode and one file load at a time, from
\* the state a connect leaves. `hist` holds the latest two of the stage,
\* unstage and import steps since the last step that changed the store or
\* cleared the staged map.
StageOp(name, value) == [op |-> "stage", name |-> name, value |-> value]
UnstageOp(name) == [op |-> "unstage", name |-> name, value |-> 0]
ImportOp == [op |-> "import", name |-> "*", value |-> 0]
LastTwo(h, e) == IF Len(h) < 2 THEN Append(h, e) ELSE <<h[2], e>>

EditInit ==
    /\ connected = TRUE
    /\ linkUsed = TRUE
    /\ store = NullStore
    /\ staged = EmptyMap
    /\ filterMode = "standard"
    /\ flights = EmptyBag
    /\ writes = EmptyBag
    /\ loads = EmptyBag
    /\ toast = NoToast
    /\ editingParam = NoEdit
    /\ progress = NoProgress
    /\ hist = <<>>

EditNext ==
    \/ (\E p \in Maps : StorePush(p)) /\ hist' = <<>>
    \/ \E n \in Names, v \in Values : Stage(n, v) /\ hist' = LastTwo(hist, StageOp(n, v))
    \/ \E n \in Names : Unstage(n) /\ hist' = LastTwo(hist, UnstageOp(n))
    \/ UnstageAll /\ hist' = <<>>
    \/ (\E m \in {"all", "modified", "standard"} : SetFilterMode(m)) /\ UNCHANGED hist
    \/ loads = EmptyBag /\ LoadStart /\ UNCHANGED hist
    \/ (\E c \in BagToSet(loads) : \E parsed \in Maps : LoadDone(c, parsed))
          /\ hist' = LastTwo(hist, ImportOp)
    \/ (\E c \in BagToSet(loads) : \E threw \in BOOLEAN : LoadAbort(c, threw))
          /\ UNCHANGED hist

EditSpec == EditInit /\ [][EditNext]_vars

\* -------------------------------------------------------- the entry paths
\* How a value gets into the staged map from the configuration panel: the
\* edit field of a parameter row, the setup wizard and a file load, with
\* the store as the store events leave it.

\* handleStartEdit: a row of the table is a parameter of the store.
HandleStartEdit(name) ==
    /\ InStore(store, name)
    /\ editingParam' = name
    /\ toast' = NoToast
    /\ UNCHANGED <<progress, connected, linkUsed, store, staged, filterMode, flights, writes, loads>>

\* handleConfirm, `val` being Number(editValue): the text of the edit field
\* is whatever the operator typed since the edit began.
HandleConfirm(val) ==
    /\ editingParam # NoEdit
    /\ IF IsFinite(val)
       THEN /\ staged' = StageUpdate(store, staged, editingParam, val)
            /\ editingParam' = NoEdit
       ELSE UNCHANGED <<staged, editingParam>>
    /\ toast' = NoToast
    /\ UNCHANGED <<progress, connected, linkUsed, store, filterMode, flights, writes, loads>>

\* handleCancel.
HandleCancel ==
    /\ editingParam' = NoEdit
    /\ toast' = NoToast
    /\ UNCHANGED <<progress, connected, linkUsed, store, staged, filterMode, flights, writes, loads>>

\* handleStageFromSetup: the wizard hands over the entries it computed.
HandleStageFromSetup(entries) ==
    /\ entries # EmptyMap
    /\ staged' = StageAll(store, staged, entries)
    /\ filterMode' = "modified"
    /\ toast' = NoToast
    /\ UNCHANGED <<progress, editingParam, connected, linkUsed, store, flights, writes, loads>>

EntryNext ==
    \/ (\E p \in EntryMaps : StorePush(p)) /\ UNCHANGED hist
    \/ (\E n \in Names : HandleStartEdit(n)) /\ UNCHANGED hist
    \/ (\E val \in EntryInputs : HandleConfirm(val)) /\ UNCHANGED hist
    \/ HandleCancel /\ UNCHANGED hist
    \/ (\E entries \in EntryInputMaps : HandleStageFromSetup(entries)) /\ UNCHANGED hist
    \/ (\E n \in Names : Unstage(n)) /\ UNCHANGED hist
    \/ loads = EmptyBag /\ LoadStart /\ UNCHANGED hist
    \/ (\E c \in BagToSet(loads) : \E parsed \in EntryInputMaps : LoadDone(c, parsed))
          /\ UNCHANGED hist
    \/ (\E c \in BagToSet(loads) : \E threw \in BOOLEAN : LoadAbort(c, threw))
          /\ UNCHANGED hist

EntrySpec == EditInit /\ [][EntryNext]_vars

\* ------------------------------------------------------------ the retries
\* applyStaged called again and again on a link that stays up, with no
\* edit in between, from any store and any staged map. `hist` holds how
\* the latest two calls that returned without a request or whose request
\* settled came out: the kind of their toast, "noop" for the early return.
ApplyOp(kind) == [op |-> kind, name |-> "*", value |-> 0]

\* writeBatchParams reports success for every name of the request.
AllOk(entries) == [n \in DOMAIN entries |-> TRUE]

RetryInit ==
    /\ connected = TRUE
    /\ linkUsed = TRUE
    /\ store \in {NullStore} \cup {SomeStore(p) : p \in Maps}
    /\ staged \in Maps
    /\ filterMode = "standard"
    /\ flights = EmptyBag
    /\ writes = EmptyBag
    /\ loads = EmptyBag
    /\ toast = NoToast
    /\ editingParam = NoEdit
    /\ progress = NoProgress
    /\ hist = <<>>

RetryApply == ApplyStart /\ UNCHANGED hist

RetryAllOk ==
    \E f \in BagToSet(flights) :
       ApplyDone(f, AllOk(f.entries)) /\ hist' = LastTwo(hist, ApplyOp(toast'.kind))

RetryNext ==
    \/ RetryApply
    \/ ApplyNoop /\ hist' = LastTwo(hist, ApplyOp("noop"))
    \/ \E f \in BagToSet(flights) : \E r \in ResultsFor(f.entries) :
          ApplyDone(f, r) /\ hist' = LastTwo(hist, ApplyOp(toast'.kind))
    \/ \E f \in BagToSet(flights) :
          ApplyFail(f) /\ hist' = LastTwo(hist, ApplyOp(toast'.kind))

RetrySpec == RetryInit /\ [][RetryNext]_vars

\* The operator keeps calling applyStaged while something is staged, and
\* the device again and again gets the chance to accept a whole request.
RetryFairSpec == RetrySpec /\ WF_vars(RetryApply) /\ SF_vars(RetryAllOk)

\* ---------------------------------------------------------- the downloads
\* download called with and without a link, between store events and
\* staging calls. `hist` holds the latest two of: the toast of a download
\* call, and a store event with the store it found.
PushOp(before) == [op |-> "push", name |-> "*", value |-> 0, before |-> before]

LinkDownload(ok) ==
    Download(ok) /\ hist' = LastTwo(hist, ApplyOp(DownloadReport(connected, ok)))

LinkNext ==
    \/ Connect /\ UNCHANGED hist
    \/ Disconnect /\ UNCHANGED hist
    \/ (\E p \in Maps : StorePush(p)) /\ hist' = LastTwo(hist, PushOp(store))
    \/ (\E n \in Names, v \in Values : Stage(n, v)) /\ UNCHANGED hist
    \/ \E ok \in BOOLEAN : LinkDownload(ok)

LinkSpec == Init /\ [][LinkNext]_vars

\* ------------------------------------------------------- the filter mode
\* The filter mode over the life of the hook: mounted with the link up or
\* down, then link changes, store events, staging calls and the operator's
\* choice of mode. `hist` holds the filter mode the hook started with.
ModeInit ==
    /\ \E conn \in BOOLEAN : Mount(conn)
    /\ hist = <<ApplyOp(filterMode)>>

ModeNext ==
    \/ Connect /\ UNCHANGED hist
    \/ Disconnect /\ UNCHANGED hist
    \/ (\E p \in Maps : StorePush(p)) /\ UNCHANGED hist
    \/ (\E n \in Names, v \in Values : Stage(n, v)) /\ UNCHANGED hist
    \/ (\E m \in {"all", "modified", "standard"} : SetFilterMode(m)) /\ UNCHANGED hist

ModeSpec == ModeInit /\ [][ModeNext]_vars

\* ------------------------------------------------------- the table edits
\* The edit field of the parameter table seen on its own: store events,
\* the start of an edit, its confirmation and its cancellation. `hist`
\* holds the latest confirmation since the last store event: the row and
\* the number the edit field gave.
ConfirmNext ==
    \/ (\E p \in EntryMaps : StorePush(p)) /\ hist' = <<>>
    \/ (\E n \in Names : HandleStartEdit(n)) /\ UNCHANGED hist
    \/ \E val \in EntryInputs :
          HandleConfirm(val) /\ hist' = <<StageOp(editingParam, val)>>
    \/ HandleCancel /\ UNCHANGED hist

ConfirmSpec == EditInit /\ [][ConfirmNext]_vars

\* ------------------------------------------------------ the Apply button
\* applyStaged as the toolbar calls it: the Apply button is disabled while
\* the latest progress event rendered says "downloading" or "writing".
\* Progress events come from the backend, some time after the call that
\* causes them.
Busy(phase) == phase \in {"downloading", "writing"}

\* subscribeParamProgress(setProgress): a progress event replaces the state.
ProgressEvent(phase) ==
    /\ linkUsed
    /\ progress' = phase
    /\ toast' = NoToast
    /\ UNCHANGED <<editingParam, connected, linkUsed, store, staged, filterMode, flights, writes, loads>>

\* <button onClick={params.applyStaged}
\*         disabled={!connected || params.staged.size === 0 || busy}>
ApplyButtonEnabled == connected /\ staged # EmptyMap /\ ~Busy(progress)

ApplyClick == ApplyButtonEnabled /\ ApplyStart

ButtonNext ==
    \/ (\E n \in Names, v \in Values : Stage(n, v)) /\ UNCHANGED hist
    \/ ApplyClick /\ UNCHANGED hist
    \/ (\E phase \in Phases : ProgressEvent(phase)) /\ UNCHANGED hist
    \/ (\E f \in BagToSet(flights) : \E r \in ResultsFor(f.entries) : ApplyDone(f, r))
          /\ UNCHANGED hist
    \/ (\E f \in BagToSet(flights) : ApplyFail(f)) /\ UNCHANGED hist

ButtonSpec == EditInit /\ [][ButtonNext]_vars

\* ------------------------------------------------- applying without a link
\* applyStaged called with the link up or down, between link changes and
\* staging calls. `hist` says whether the latest step was an applyStaged
\* call that returned at once.
OfflineNext ==
    \/ Connect /\ hist' = <<>>
    \/ Disconnect /\ hist' = <<>>
    \/ (\E n \in Names, v \in Values : Stage(n, v)) /\ hist' = <<>>
    \/ ApplyStart /\ hist' = <<>>
    \/ ApplyNoop /\ hist' = <<ApplyOp("noop")>>
    \/ (\E f \in BagToSet(flights) : \E r \in ResultsFor(f.entries) : ApplyDone(f, r))
          /\ hist' = <<>>
    \/ (\E f \in BagToSet(flights) : ApplyFail(f)) /\ hist' = <<>>

OfflineSpec == Init /\ [][OfflineNext]_vars

\* ------------------------------------------------------ the single writes
\* write(name, value) called with the link up or down, between link
\* changes, store events and staging calls.
WriteNext ==
    \/ Connect /\ UNCHANGED hist
    \/ Disconnect /\ UNCHANGED hist
    \/ (\E p \in Maps : StorePush(p)) /\ UNCHANGED hist
    \/ (\E n \in Names, v \in Values : Stage(n, v)) /\ UNCHANGED hist
    \/ WriteNotConnected /\ UNCHANGED hist
    \/ (\E n \in Names, v \in Values : WriteStart(n, v)) /\ UNCHANGED hist
    \/ (\E n \in BagToSet(writes) : \E c \in Values : WriteDone(n, c)) /\ UNCHANGED hist
    \/ (\E n \in BagToSet(writes) : WriteFail(n)) /\ UNCHANGED hist

WriteSpec == Init /\ [][WriteNext]_vars

\* ------------------------------------------------------------ the grouping
\* groupedParams as a function of the filtered list. The names here are
\* texts of several characters, given in name order; a filtered list is a
\* selection of them in that order, of at most MaxShown names.
MaxShown == 5

GroupNameList ==
    << <<"_", "A">>, <<"_", "A", "_", "B">>, <<"A">>, <<"A", "_">>,
       <<"A", "_", "B">>, <<"A", "_", "B", "_", "C">>, <<"B", "_", "A">> >>

ShownLists ==
    {[i \in 1..Cardinality(S) |->
         GroupNameList[CHOOSE k \in S : Cardinality({j \in S : j < k}) = i - 1]] :
       S \in {T \in SUBSET DOMAIN GroupNameList : Cardinality(T) <= MaxShown}}

\* name.split("_")[0]
SplitFirst(name) ==
    IF \E i \in DOMAIN name : name[i] = "_"
    THEN SubSeq(name, 1, (CHOOSE i \in DOMAIN name :
                             /\ name[i] = "_"
                             /\ \A j \in 1..(i - 1) : name[j] # "_") - 1)
    ELSE name

\* Fault: the key is the part of the name before its last underscore.
PrefixToLastUnderscore(name) ==
    IF \E i \in DOMAIN name : name[i] = "_"
    THEN LET last == CHOOSE i \in DOMAIN name :
                        name[i] = "_" /\ \A j \in (i + 1)..Len(name) : name[j] # "_"
         IN  IF last = 1 THEN name ELSE SubSeq(name, 1, last - 1)
    ELSE name

\* param.name.split("_")[0] || param.name
Prefix(name) == IF SplitFirst(name) = <<>> THEN name ELSE SplitFirst(name)

\* The loop of groupedParams over the rest of the list: a new key gets an
\* empty group, and the parameter is pushed onto the group of its key.
RECURSIVE GroupFrom(_, _)
GroupFrom(list, groups) ==
    IF list = <<>> THEN groups
    ELSE LET key == Prefix(Head(list))
             old == IF key \in DOMAIN groups THEN groups[key] ELSE <<>>
         IN  GroupFrom(Tail(list),
                       [k \in DOMAIN groups \cup {key} |->
                           IF k = key THEN Append(old, Head(list)) ELSE groups[k]])

\* groupedParams: Record<string, Param[]>, as a function from key to names.
GroupedParams(list) == GroupFrom(list, [k \in {} |-> <<>>])

GroupOp(list) == [op |-> "group", list |-> list, groups |-> GroupedParams(list)]

\* A render with the filtered list `list`: `hist` holds the list and the
\* groups made of it.
Group(list) ==
    /\ hist' = <<GroupOp(list)>>
    /\ UNCHANGED <<connected, linkUsed, store, staged, filterMode, flights, writes, loads,
                   toast, editingParam, progress>>

GroupNext == \E list \in ShownLists : Group(list)

GroupSpec == EditInit /\ [][GroupNext]_vars

\* ----------------------------------------------------------------- claims

\* C1: in every reachable state, each staged name is absent from the store
\* or its staged value differs from the store's value for it.
C1_StagedDiffersFromStore ==
    \A n \in DOMAIN staged : InStore(store, n) => staged[n] # store.params[n]

\* C2: a store push that sets a staged name to its staged value removes the
\* name from the staged map.
C2_PushReconciles ==
    [][\A p \in Maps : \A n \in DOMAIN staged :
          (StorePush(p) /\ Has(p, n) /\ p[n] = staged[n]) => ~Has(staged', n)]_vars

\* C3: a success result for a name whose staged value is no longer the value
\* submitted in that batch leaves the newer staged value in place.
C3_RaceGuard ==
    [][\A f \in BagToSet(flights) : \A r \in ResultsFor(f.entries) :
          \A n \in Succeeded(r) :
             (ApplyDone(f, r) /\ Has(staged, n) /\ staged[n] # f.entries[n])
                => (Has(staged', n) /\ staged'[n] = staged[n])]_vars

\* C4: when an apply completes and the staged map is still the submitted
\* snapshot, every succeeded name is removed and every failed name stays
\* staged with the value it had.
C4_PartialFailure ==
    [][toast'.kind \in {"written", "partial"} =>
          \A f \in BagToSet(flights) : \A r \in ResultsFor(f.entries) :
             (staged = f.entries /\ ApplyDone(f, r)) =>
                /\ \A n \in Succeeded(r) : ~Has(staged', n)
                /\ \A n \in Failed(r) : Has(staged', n) /\ staged'[n] = staged[n]]_vars

\* C4 witness: an apply of two entries has just reported one written and one
\* failed, and exactly the failed entry is left staged.
C4_Witness ==
    /\ toast = Toast("partial", 1, 1)
    /\ flights = EmptyBag
    /\ Cardinality(DOMAIN staged) = 1

\* C5: the step in which `connected` becomes false leaves the store null and
\* the staged map empty.
C5_DisconnectClears ==
    [][(connected /\ ~connected') => (store' = NullStore /\ staged' = EmptyMap)]_vars

\* C5 witness: disconnected and cleared, while a batch write issued from a
\* non-empty staged map and a file load that saw a downloaded store are still
\* outstanding from the session that ended.
C5_Witness ==
    /\ ~connected /\ store = NullStore /\ staged = EmptyMap
    /\ \E f \in BagToSet(flights) : f.stale
    /\ \E c \in BagToSet(loads) : c.present /\ c.params # EmptyMap

\* C6: the result of a batch write that was in flight at a disconnect changes
\* neither the staged map nor the store.
C6_StaleResultDiscarded ==
    [][\A f \in BagToSet(flights) : \A r \in ResultsFor(f.entries) :
          (ApplyDone(f, r) /\ f.stale) => (staged' = staged /\ store' = store)]_vars

\* C7: the step that reports a rejected batch write leaves the staged map and
\* the store as they were.
C7_WholesaleFailure ==
    [][toast'.kind = "batch-failed" => (staged' = staged /\ store' = store)]_vars

\* C7 witness: a batch write has just been reported as failed with entries
\* staged.
C7_Witness ==
    toast.kind = "batch-failed" /\ staged # EmptyMap

\* C8: a batch write is issued with exactly the staged map at the moment of
\* the call, so a value staged during an earlier flight and still staged is
\* in it; what an outstanding batch write submitted never changes: in every
\* step the submitted snapshots stay as they are, gain the current staged
\* map, or lose the one that settled.
C8_Submitted(bag) == BagOfAll(EntriesOf, bag)

C9_Changed(n) == ~Has(staged', n) \/ staged'[n] # staged[n]

C9_Reason(n) ==
    \/ Unstage(n)
    \/ UnstageAll
    \/ \E v \in Values : Stage(n, v)
    \/ connected /\ ~connected'
    \/ store' # store /\ InStore(store', n) /\ store'.params[n] = staged[n]
    \/ \E c \in BagToSet(loads) : \E parsed \in Maps : LoadDone(c, parsed) /\ Has(parsed, n)
    \/ \E f \in BagToSet(flights) : \E r \in ResultsFor(f.entries) :
          n \in Succeeded(r) /\ ApplyDone(f, r)

C9_Forbidden(n) ==
    \/ store' # store /\ \E p \in Maps : (Has(p, n) => p[n] # staged[n]) /\ StorePush(p)
    \/ \E f \in BagToSet(flights) : \E r \in ResultsFor(f.entries) :
          n \notin Succeeded(r) /\ ApplyDone(f, r)
    \/ toast'.kind = "batch-failed"
    \/ \E ok \in BOOLEAN : Download(ok)

C9_NoSilentDiscard ==
    [][\A n \in DOMAIN staged :
          C9_Changed(n) => (C9_Reason(n) /\ ~C9_Forbidden(n))]_vars

\* C9 witness: a failed batch write has just been reported and an entry is
\* still staged with a value the downloaded store does not hold.
C9_Witness ==
    /\ toast.kind = "batch-failed"
    /\ \E n \in DOMAIN staged : InStore(store, n) /\ store.params[n] # staged[n]

\* C10: after an apply completes, every submitted name that was staged is
\* still staged with the operator's value or the store holds the submitted
\* value for it.
C10_PreservedOrConfirmed ==
    [][\A f \in BagToSet(flights) : \A r \in ResultsFor(f.entries) :
          ApplyDone(f, r) =>
             \A n \in DOMAIN f.entries :
                Has(staged, n) =>
                   \/ Has(staged', n) /\ staged'[n] = staged[n]
                   \/ InStore(store', n) /\ store'.params[n] = f.entries[n]]_vars

\* The latest recorded staging operation, and the one before it.
LastOp == hist[Len(hist)]

\* C11: stage(name, v) while the store holds name with value v leaves name
\* out of the staged map, whether or not name was staged before.
C11_IdempotentCollapse ==
    [][\A n \in Names, v \in Values :
          (MatchesCurrent(store, n, v) /\ Stage(n, v)) => ~Has(staged', n)]_vars

\* C11 witness: a name was staged with a value the store does not hold and
\* then with the value the store holds, and is not staged any more.
C11_Witness ==
    \E n \in Names, v, w \in Values :
       /\ w # v
       /\ hist = <<StageOp(n, w), StageOp(n, v)>>
       /\ MatchesCurrent(store, n, v)
       /\ ~Has(staged, n)

\* C12 as stated: for v1 # v2, stage(name, v1) and then stage(name, v2)
\* leaves name staged with v2.
C12_SecondStageWins ==
    [][\A n \in Names, v1, v2 \in Values :
          (/\ v1 # v2
           /\ hist # <<>> /\ LastOp = StageOp(n, v1)
           /\ Stage(n, v2)) => (Has(staged', n) /\ staged'[n] = v2)]_vars

\* C12 amended: for v1 # v2, stage(name, v1) and then stage(name, v2)
\* leaves name staged with v2, unless the store holds name with value v2:
\* then no entry for name is left.
C12_SecondStageWinsOrCollapses ==
    [][\A n \in Names, v1, v2 \in Values :
          (/\ v1 # v2
           /\ hist # <<>> /\ LastOp = StageOp(n, v1)
           /\ Stage(n, v2)) =>
             IF MatchesCurrent(store, n, v2)
             THEN ~Has(staged', n)
             ELSE Has(staged', n) /\ staged'[n] = v2]_vars

\* C12 witness: a name was staged with one value and then with another, and
\* holds the second.
C12_Witness ==
    \E n \in Names, v1, v2 \in Values :
       /\ v1 # v2
       /\ hist = <<StageOp(n, v1), StageOp(n, v2)>>
       /\ Has(staged, n) /\ staged[n] = v2

\* C13: when a single write of a name is confirmed and the store entry is
\* patched with the confirmed value, an entry staged for that name with that
\* value is removed from the staged map.
C13_WriteReconciles ==
    [][\A n \in BagToSet(writes) : \A c \in Values :
          (/\ store.present
           /\ Has(staged, n) /\ staged[n] = c
           /\ WriteDone(n, c)) => ~Has(staged', n)]_vars

\* C14: for an imported entry whose name the store knows, the import stages
\* the imported value exactly when it differs from the stored value by more
\* than the tolerance of the parameter's type: the rounded values differ for
\* an integral type, the distance exceeds 0.0001 for a float.
C14_Abs(x) == IF x < 0 THEN 0 - x ELSE x

C14_Exceeds(n, stored, imported) ==
    IF ParamType[n] \in IntegerTypes
    THEN Round(stored) # Round(imported)
    ELSE C14_Abs(stored - imported) > 1000

C14_ImportTolerance ==
    [][toast'.kind = "loaded" =>
          \A c \in BagToSet(loads) : \A parsed \in EntryInputMaps :
             (c = store /\ LoadDone(c, parsed)) =>
                \A n \in DOMAIN parsed :
                   (InStore(store, n) /\ IsFinite(parsed[n])) =>
                      IF C14_Exceeds(n, store.params[n], parsed[n])
                      THEN Has(staged', n) /\ staged'[n] = parsed[n]
                      ELSE /\ Has(staged', n) = Has(staged, n)
                           /\ Has(staged, n) => staged'[n] = staged[n]]_vars

\* C15: an imported entry whose name the store does not hold, also when
\* there is no store at all, is staged with the imported value.
C15_OptimisticImport ==
    [][toast'.kind \in {"loaded", "loaded-no-store"} =>
          \A c \in BagToSet(loads) : \A parsed \in Maps :
             LoadDone(c, parsed) =>
                \A n \in DOMAIN parsed :
                   ~InStore(store, n) => (Has(staged', n) /\ staged'[n] = parsed[n])]_vars

\* C17: every value in the staged map is a finite number, whichever way it
\* came in: the edit field, the setup wizard or a file.
C17_StagedFinite ==
    \A n \in DOMAIN staged : IsFinite(staged[n])

\* C18: when an apply completes, the reported success and failure counts add
\* up to the number of submitted names, and a submitted name the result list
\* leaves out stays staged.
C18_ResultAccounting ==
    [][toast'.kind \in {"written", "partial"} =>
          \A f \in BagToSet(flights) : \A r \in ResultsFor(f.entries) :
             ApplyDone(f, r) =>
                /\ toast'.n1 + toast'.n2 = Cardinality(DOMAIN f.entries)
                /\ \A n \in DOMAIN f.entries \ DOMAIN r :
                      Has(staged, n) => Has(staged', n)]_vars

\* C19: no step of a file load (its start, its completion with a parsed
\* file, its abort) changes the store.
C19_ImportKeepsStore ==
    [][(loads' # loads) => store' = store]_vars

\* C19 witness: a file load has just staged entries against a downloaded
\* store.
C19_Witness ==
    /\ toast.kind = "loaded" /\ toast.n2 > 0
    /\ store.present /\ store.params # EmptyMap
    /\ staged # EmptyMap

\* The names of a list, and a list in strictly ascending name order.
NamesIn(list) == {list[i] : i \in DOMAIN list}
Ascending(list) == \A i, j \in DOMAIN list : i < j => NameBefore(list[i], list[j])

\* C16 as stated: with the filter mode "modified" and no search term the
\* filter returns exactly the names of the staged map, in name order.
C16_ModifiedIsStagedKeys ==
    filterMode = "modified" =>
       \A meta \in MetaSamples :
          LET shown == FilteredParams(store, staged, meta, filterMode, <<>>)
          IN  NamesIn(shown) = DOMAIN staged /\ Ascending(shown)

\* C16 amended: with the filter mode "modified" and no search term the
\* filter returns exactly the staged names that the store holds, each once,
\* in name order; a staged name the store does not hold is not returned.
C16_ModifiedIsStagedStoreNames ==
    filterMode = "modified" =>
       \A meta \in MetaSamples :
          LET shown == FilteredParams(store, staged, meta, filterMode, <<>>)
          IN  /\ NamesIn(shown) = DOMAIN staged \cap DOMAIN store.params
              /\ Len(shown) = Cardinality(NamesIn(shown))
              /\ Ascending(shown)

\* C16 witness: the filter mode is "modified", every name is staged, and the
\* store holds one of the staged names and lacks another.
C16_Witness ==
    /\ filterMode = "modified"
    /\ \E n, m \in DOMAIN staged : InStore(store, n) /\ store.present /\ ~InStore(store, m)

\* C20: one file load interleaved with stage / unstage calls: for each name
\* the staged map ends with what the operation that touched the name last
\* made of it, and operations on different names give the same staged map
\* in either order.
\* What the staged map holds for a name: <<v>> if staged with v, else <<>>.
C20_Entry(m, n) == IF Has(m, n) THEN <<m[n]>> ELSE <<>>

\* A stage or unstage that follows the import decides the entry of its name.
C20_ImportThenEdit ==
    (hist # <<>> /\ LastOp = ImportOp) =>
       /\ \A n \in Names, v \in Values :
             Stage(n, v) =>
                C20_Entry(staged', n) = IF MatchesCurrent(store, n, v) THEN <<>> ELSE <<v>>
       /\ \A n \in Names : Unstage(n) => C20_Entry(staged', n) = <<>>

\* An import that follows a stage or unstage of a name in the file decides
\* the entry of that name: the file's value if it differs from the value the
\* store of the load holds for the name, else the entry is left as it was.
C20_EditThenImport ==
    (hist # <<>> /\ LastOp.op \in {"stage", "unstage"} /\ toast'.kind = "loaded") =>
       \A c \in BagToSet(loads) : \A parsed \in Maps :
          (LoadDone(c, parsed) /\ Has(parsed, LastOp.name)) =>
             C20_Entry(staged', LastOp.name) =
                IF InStore(c, LastOp.name) /\ c.params[LastOp.name] # parsed[LastOp.name]
                THEN <<parsed[LastOp.name]>>
                ELSE C20_Entry(staged, LastOp.name)

\* With a file load outstanding, a stage or unstage of a name that is not in
\* the file and the completion of the load give the same staged map in
\* either order.
C20_Commute ==
    \A c \in BagToSet(loads) : \A parsed \in Maps : \A n \in Names \ DOMAIN parsed :
       /\ \A v \in Values :
             ImportStaged(c, StageUpdate(store, staged, n, v), parsed)
                = StageUpdate(store, ImportStaged(c, staged, parsed), n, v)
       /\ ImportStaged(c, UnstageUpdate(staged, n), parsed)
             = UnstageUpdate(ImportStaged(c, staged, parsed), n)

C21_ImportCounts ==
    [][toast'.kind = "loaded" =>
          \A c \in BagToSet(loads) : \A parsed \in Maps :
             LoadDone(c, parsed) =>
                /\ toast'.n1 = Cardinality(DOMAIN parsed)
                /\ toast'.n2 = Cardinality({n \in DOMAIN parsed :
                                    InStore(c, n) /\ c.params[n] # parsed[n]})]_vars

\* The access level the metadata gives a name; "" when the metadata, the
\* entry of the name or its level is absent.
C22_Level(meta, n) ==
    IF meta.present /\ Has(meta.of, n) THEN meta.of[n].userLevel ELSE ""

\* C22: with the filter mode "standard" and no search term the filter
\* returns exactly the store's names whose access level is absent or
\* "Standard"; without any metadata that is what the mode "all" returns.
C22_StandardOnly ==
    filterMode = "standard" =>
       \A meta \in MetaSamples :
          LET shown == FilteredParams(store, staged, meta, filterMode, <<>>)
          IN  /\ NamesIn(shown) = {n \in DOMAIN store.params :
                                      C22_Level(meta, n) \in {"", "Standard"}}
              /\ ~meta.present =>
                    shown = FilteredParams(store, staged, meta, "all", <<>>)

\* C22 witness: the filter mode is "standard", the store holds parameters,
\* one metadata hides a parameter of the store and without metadata every
\* parameter is shown.
C22_Witness ==
    /\ filterMode = "standard"
    /\ store.present /\ DOMAIN store.params = Names
    /\ \E meta \in MetaSamples :
          Len(FilteredParams(store, staged, meta, filterMode, <<>>)) < Cardinality(Names)
    /\ Len(FilteredParams(store, staged, NoMetadata, filterMode, <<>>)) = Cardinality(Names)

\* C23: applyStaged called with nothing staged returns at once: no batch
\* write is issued, no toast is shown, and the staged map and the store are
\* unchanged.
C23_EmptyApplyNoop ==
    [][(staged = EmptyMap /\ (ApplyStart \/ ApplyNoop)) =>
          /\ flights' = flights
          /\ staged' = staged
          /\ store' = store
          /\ toast' = NoToast]_vars

\* C23 witness: applyStaged has just returned early on an up link with
\* nothing staged, after a batch write that emptied the staged map.
C23_Witness ==
    /\ connected /\ staged = EmptyMap
    /\ Len(hist) = 2 /\ hist[1].op = "written" /\ hist[2].op = "noop"

\* C24: a download that is refused for want of a link, or whose
\* downloadAllParams call fails, is reported with an error toast and leaves
\* the store and the staged map as they were.
C24_DownloadFailureKeepsState ==
    [][\A ok \in BOOLEAN :
          (LinkDownload(ok) /\ (~connected \/ ~ok)) =>
             /\ store' = store
             /\ staged' = staged
             /\ LastOp'.op = IF connected THEN "download-failed" ELSE "connect-first"]_vars

\* C24 witness: a download has just failed on an up link with a store
\* present and an edit staged.
C24_Witness ==
    /\ connected /\ store.present /\ staged # EmptyMap
    /\ hist # <<>> /\ LastOp.op = "download-failed"

\* C25: staging a value for a parameter of an integral type that the store
\* holds compares the stored and the proposed value after rounding both:
\* equal after rounding, the name ends unstaged; otherwise it ends staged
\* with the proposed value.
C25_RoundedEquality ==
    [][(editingParam # NoEdit /\ editingParam' = NoEdit) =>
          \A val \in EntryValues :
             (/\ HandleConfirm(val)
              /\ InStore(store, editingParam)
              /\ ParamType[editingParam] \in IntegerTypes) =>
                IF Round(store.params[editingParam]) = Round(val)
                THEN ~Has(staged', editingParam)
                ELSE Has(staged', editingParam) /\ staged'[editingParam] = val]_vars

\* C26: every store push is applied as it arrives: after it the store holds
\* what it delivered, and it has been reconciled against the staged map,
\* which keeps no entry whose value the delivered store holds.
C26_PushAppliedAndReconciled ==
    [][\A p \in Maps :
          StorePush(p) =>
             /\ store' = SomeStore(p)
             /\ \A n \in DOMAIN staged' : Has(p, n) => staged'[n] # p[n]]_vars

\* C27: with applyStaged called again and again, no edit and no disconnect:
\* a failed or partly failed batch write leaves every entry it did not
\* write staged as it was, each call submits exactly the entries staged at
\* that moment, and once the device accepts a whole request the staged map
\* is empty and stays empty.
C27_RetryLiveness ==
    /\ [][\A f \in BagToSet(flights) :
             /\ ApplyFail(f) => staged' = staged
             /\ \A r \in ResultsFor(f.entries) :
                   ApplyDone(f, r) =>
                      \A n \in DOMAIN staged \ Succeeded(r) :
                         Has(staged', n) /\ staged'[n] = staged[n]]_vars
    /\ [][ApplyStart => flights' = Issue(flights, [entries |-> staged, stale |-> FALSE])]_vars
    /\ <>[](staged = EmptyMap)

\* C27 witness: a batch write failed as a whole or in part, the next one
\* was accepted, and nothing is staged any more.
C27_Witness ==
    /\ Len(hist) = 2
    /\ hist[1].op \in {"batch-failed", "partial"}
    /\ hist[2].op = "written"
    /\ staged = EmptyMap /\ flights = EmptyBag

\* C28: unstage(name) removes the entry of name if there is one and changes
\* nothing otherwise; every other entry, the store and the outstanding
\* calls are unchanged, and a second unstage(name) changes nothing.
C28_UnstageFrame ==
    [][\A n \in Names :
          Unstage(n) =>
             /\ ~Has(staged', n)
             /\ \A m \in Names \ {n} :
                   /\ Has(staged', m) = Has(staged, m)
                   /\ Has(staged, m) => staged'[m] = staged[m]
             /\ ~Has(staged, n) => staged' = staged
             /\ store' = store /\ flights' = flights /\ writes' = writes
             /\ UnstageUpdate(staged', n) = staged']_vars

\* C28 witness: unstage was called for a name that had just been staged,
\* the name is no longer staged and another name still is.
C28_Witness ==
    \E n \in Names, v \in Values :
       /\ hist = <<StageOp(n, v), UnstageOp(n)>>
       /\ ~MatchesCurrent(store, n, v)
       /\ ~Has(staged, n)
       /\ staged # EmptyMap /\ store.present

\* C29: stage(name, value) can be called in every state and touches the
\* entry of name only: every other entry, the store and the outstanding
\* calls are unchanged, and no write is issued.
C29_StageFrame ==
    /\ [](\A n \in Names, v \in Values : ENABLED (Stage(n, v) /\ UNCHANGED hist))
    /\ [][\A n \in Names, v \in Values :
             Stage(n, v) =>
                /\ \A m \in Names \ {n} :
                      /\ Has(staged', m) = Has(staged, m)
                      /\ Has(staged, m) => staged'[m] = staged[m]
                /\ store' = store
                /\ flights' = flights /\ writes' = writes]_vars

\* C29 witness: a value was staged for one name while another name was
\* staged, with a store present; both are staged.
C29_Witness ==
    /\ Len(hist) = 2 /\ hist[1].op = "stage" /\ hist[2].op = "stage"
    /\ hist[1].name # hist[2].name
    /\ DOMAIN staged = Names /\ store.present
    /\ staged[hist[1].name] = hist[1].value

\* The search terms the filter is checked with.
C30_Searches == { <<>>, <<"a">>, <<"B">>, <<"a", "b">>, <<"z">> }

\* `term` occurs in `text`, letter case aside.
C30_Occurs(text, term) ==
    \E i \in 0..(Len(text) - Len(term)) :
       \A k \in 1..Len(term) : LowerOf(text[i + k]) = LowerOf(term[k])

\* A parameter matches the search: the term occurs in its name or, with
\* metadata for it, in its human name or description.
C30_Matches(meta, n, term) ==
    \/ C30_Occurs(NameText(n), term)
    \/ /\ meta.present /\ Has(meta.of, n)
       /\ \/ C30_Occurs(meta.of[n].humanName, term)
          \/ C30_Occurs(meta.of[n].description, term)

\* C30: the filter returns the parameters that pass the mode filter and
\* match the search term, each once, in ascending name order.
C30_ModeThenSearchSorted ==
    \A meta \in MetaSamples : \A search \in C30_Searches :
       LET passed == ModeFilter(ParamList(store), staged, meta, filterMode)
           shown == FilteredParams(store, staged, meta, filterMode, search)
       IN  /\ NamesIn(shown) = {n \in NamesIn(passed) : C30_Matches(meta, n, search)}
           /\ Len(shown) = Cardinality(NamesIn(shown))
           /\ Ascending(shown)

\* C30 witness: the store holds every name, a name is staged, and for some
\* metadata and search term the filter shows one parameter only, found by
\* a text of its metadata and not by its name.
C30_Witness ==
    /\ store.present /\ DOMAIN store.params = Names /\ staged # EmptyMap
    /\ \E meta \in MetaSamples : \E search \in C30_Searches :
          LET shown == FilteredParams(store, staged, meta, filterMode, search)
          IN  /\ Len(shown) = 1
              /\ ~C30_Occurs(NameText(shown[1]), search)

C32_OneDefaultMode ==
    [][Disconnect => filterMode' = hist[1].op]_vars

\* C33: confirming an edit with a finite number stages it for the edited
\* row (or removes the row's entry, the store holding that number) and
\* ends the edit; with a number that is not finite it changes nothing. In
\* both cases no write is issued, and the store and every other staged
\* entry are unchanged.
C33_ConfirmStagesOnly ==
    [][\A val \in EntryInputs :
          HandleConfirm(val) =>
             /\ store' = store
             /\ flights' = flights /\ writes' = writes /\ loads' = loads
             /\ \A m \in Names \ {editingParam} :
                   /\ Has(staged', m) = Has(staged, m)
                   /\ Has(staged, m) => staged'[m] = staged[m]
             /\ IF val = NotANumber
                THEN staged' = staged /\ editingParam' = editingParam
                ELSE /\ editingParam' = NoEdit
                     /\ IF MatchesCurrent(store, editingParam, val)
                        THEN ~Has(staged', editingParam)
                        ELSE Has(staged', editingParam) /\ staged'[editingParam] = val]_vars

\* C33 witness: an edit of a row has just been confirmed with a number the
\* store does not hold for it; the row is staged with that number and no
\* write is outstanding.
C33_Witness ==
    /\ Len(hist) = 1 /\ hist[1].op = "stage"
    /\ store.present /\ InStore(store, hist[1].name)
    /\ store.params[hist[1].name] # hist[1].value
    /\ Has(staged, hist[1].name) /\ staged[hist[1].name] = hist[1].value
    /\ editingParam = NoEdit /\ writes = EmptyBag

\* C34: at most one batch write is outstanding at any time.
C34_OneBatchInFlight ==
    BagCardinality(flights) <= 1

\* C35: once a link has been up and is down again, the store holds no
\* parameter and nothing is staged, until the next connect.
C35_DisconnectedEmpty ==
    (linkUsed /\ ~connected) =>
       /\ store.params = EmptyMap
       /\ staged = EmptyMap

\* C36: applyStaged called without a link returns at once: no batch write
\* is issued, and the staged map and the store are unchanged, so what is
\* staged is still staged when the link is up.
C36_DisconnectedApplyNoop ==
    [][(~connected /\ (ApplyStart \/ ApplyNoop)) =>
          /\ flights' = flights
          /\ staged' = staged
          /\ store' = store]_vars

\* C36 witness: applyStaged has just returned at once with the link down
\* and an entry staged; the entry is still staged.
C36_Witness ==
    /\ ~connected /\ staged # EmptyMap
    /\ hist = <<ApplyOp("noop")>>

\* C37: a completed import leaves every staged entry it does not write as
\* it was: the entries of names the file does not hold, and those of names
\* whose imported value it skips because the store it compares with holds
\* that value or lacks the name.
C37_ImportFrame ==
    [][toast'.kind \in {"loaded", "loaded-no-store"} =>
          \A c \in BagToSet(loads) : \A parsed \in Maps :
             LoadDone(c, parsed) =>
                \A n \in Names :
                   (\/ ~Has(parsed, n)
                    \/ ~InStore(c, n)
                    \/ c.params[n] = parsed[n]) =>
                      C20_Entry(staged', n) = C20_Entry(staged, n)]_vars

\* C37 witness: an import of a file with one entry has just staged that
\* entry, and the other name, which the file did not hold, is still staged.
C37_Witness ==
    /\ hist # <<>> /\ LastOp = ImportOp
    /\ toast.kind = "loaded" /\ toast.n1 = 1 /\ toast.n2 = 1
    /\ DOMAIN staged = Names

\* C38: a write that is refused for want of a link or that fails leaves
\* the store and the staged map as they were; a confirmed write sets the
\* store's entry of the written name to the confirmed value and leaves
\* every other entry of the store as it was.
C38_WriteFrame ==
    [][/\ WriteNotConnected => (store' = store /\ staged' = staged)
       /\ \A n \in BagToSet(writes) :
             /\ WriteFail(n) => (store' = store /\ staged' = staged)
             /\ \A c \in Values :
                   WriteDone(n, c) =>
                      IF store.present
                      THEN /\ store'.present
                           /\ DOMAIN store'.params = DOMAIN store.params \cup {n}
                           /\ store'.params[n] = c
                           /\ \A m \in DOMAIN store.params \ {n} :
                                 store'.params[m] = store.params[m]
                      ELSE store' = store]_vars

\* C38 witness: a write has just been confirmed with a value the store now
\* holds, next to another entry of the store, with an edit staged.
C38_Witness ==
    /\ toast.kind = "write-ok"
    /\ store.present /\ DOMAIN store.params = Names
    /\ \E n \in Names : store.params[n] = toast.n1
    /\ staged # EmptyMap

\* The key the grouping is to give a name: its part before the first
\* underscore, or the whole name when that part is empty.
C39_Key(name) ==
    LET n == Cardinality({i \in DOMAIN name : \A j \in 1..i : name[j] # "_"})
    IN  IF n = 0 THEN name ELSE SubSeq(name, 1, n)

\* C39: the groups partition the filtered list: every parameter of the list
\* is in the group of its key and in no other, every group holds exactly
\* the parameters of the list with its key, in the order of the list, and
\* no group is empty.
C39_GroupsPartition ==
    hist # <<>> =>
       LET list == hist[1].list
           groups == hist[1].groups
       IN  /\ \A i \in DOMAIN list :
                 \A key \in DOMAIN groups :
                    (\E k \in DOMAIN groups[key] : groups[key][k] = list[i])
                       <=> key = C39_Key(list[i])
           /\ \A i \in DOMAIN list : C39_Key(list[i]) \in DOMAIN groups
           /\ \A key \in DOMAIN groups :
                 /\ groups[key] # <<>>
                 /\ groups[key] = SelectSeq(list, LAMBDA n : C39_Key(n) = key)

\* C39 witness: a list was grouped that holds a name beginning with an
\* underscore and two names with the same key; there are several groups and
\* one of them holds more than one parameter.
C39_Witness ==
    /\ hist # <<>>
    /\ \E i \in DOMAIN hist[1].list : hist[1].list[i][1] = "_"
    /\ Cardinality(DOMAIN hist[1].groups) > 1
    /\ \E key \in DOMAIN hist[1].groups : Len(hist[1].groups[key]) > 1

====
